---- MODULE Spec2Model ----
(***************************************************************************)
(* Ticket machine of src/13.2/main.go: a TicketMachine whose four          *)
(* operations are dispatched to the method of its current State object.    *)
(*                                                                         *)
(* Money is float64 in the source.  The model keeps the finite values as   *)
(* integers (whole KZT; every amount used is exactly representable) and    *)
(* keeps the one non-finite value that changes the comparisons, NaN, as a  *)
(* distinguished value with the IEEE-754 rules: NaN + x = NaN and every    *)
(* ordered comparison with NaN is false.                                   *)
(***************************************************************************)
EXTENDS Integers, FiniteSets, Sequences, TLC

VARIABLES
    State,          \* m.State, by the Name() of the state object
    CurrentTicket,  \* m.CurrentTicket
    CurrentPrice,   \* m.CurrentPrice
    InsertedMoney,  \* m.InsertedMoney
    Inventory,      \* m.Inventory   (Go map: a function on the keys present)
    TicketPrices,   \* m.TicketPrices
    op,             \* the operation of the last call, "none" before any call
    ticketArg,      \* ticketType of the last call when it is SelectTicket
    amountArg,      \* amount of the last call when it is InsertMoney
    ret,            \* what the last call returned: "nil" or the error message
    lastSelected,   \* ticketType of the last SelectTicket that returned nil
    calls,          \* number of calls made so far, modulo 2
    path,           \* <<n, p>>: the calls so far are the first n calls of main's
                    \* purchase of p (SelectTicket, InsertMoney, DispenseTicket)
    okSelect,       \* number of SelectTicket calls that returned nil (capped)
    okDispense,     \* number of DispenseTicket calls that returned nil (capped)
    pc,             \* per caller: the statement of DispenseTicket it is at
    local,          \* per caller: key and count read by Inventory[CurrentTicket]--
    overlap         \* two callers were inside MoneyReceivedState.DispenseTicket at once

data == <<State, CurrentTicket, CurrentPrice, InsertedMoney, Inventory, TicketPrices>>
vars == <<State, CurrentTicket, CurrentPrice, InsertedMoney, Inventory, TicketPrices,
          op, ticketArg, amountArg, ret, lastSelected, calls,
          path, okSelect, okDispense, pc, local, overlap>>
callers == <<pc, local, overlap>>

\* ---------------------------------------------------------------- bounds
\* |InsertedMoney| is capped so that the state space is finite.
MaxMoney == 1500

\* The counters of successful calls stop counting at this value.
MaxCount == 3

\* ---------------------------------------------------------------- float64
NaN == 1000000

IsNaN(x) == x = NaN

\* x + y on float64
FAdd(x, y) == IF IsNaN(x) \/ IsNaN(y) THEN NaN ELSE x + y

\* x >= y on float64
FGe(x, y) == ~IsNaN(x) /\ ~IsNaN(y) /\ x >= y

\* x < y on float64
FLt(x, y) == ~IsNaN(x) /\ ~IsNaN(y) /\ x < y

\* ---------------------------------------------------------------- inputs
\* the goroutines that share one machine in the concurrent specification
Callers == {1, 2}

\* ticket types a caller may pass: the three of the constructor's tables, one
\* that is in neither table, and the empty string
TicketTypes == {"metro", "bus", "train", "ferry", ""}

\* amounts a caller may pass
Amounts == {NaN, -100, 0, 100, 250, 300, 1000}

StateNames == {"Idle", "WaitingForMoney", "MoneyReceived", "TicketDispensed",
               "TransactionCanceled"}

\* ---------------------------------------------------------------- errors
\* error kinds of the specification, as the messages the source returns
ProductUnavailable == "ticket unavailable"
AlreadySelected == "ticket already selected"
AlreadyCanceled == "already canceled"

\* ---------------------------------------------------------------- Go maps
\* m[k] of a Go map: the zero value when k is absent
MapGet(m, k) == IF k \in DOMAIN m THEN m[k] ELSE 0

\* m[k]-- of a Go map: the key is created when absent
MapDec(m, k) == [x \in DOMAIN m \cup {k} |-> IF x = k THEN MapGet(m, k) - 1 ELSE m[x]]

\* ---------------------------------------------------------------- machine
InitInventory == [t \in {"metro", "bus", "train"} |->
                    CASE t = "metro" -> 10 [] t = "bus" -> 15 [] t = "train" -> 5]

InitTicketPrices == [t \in {"metro", "bus", "train"} |->
                    CASE t = "metro" -> 300 [] t = "bus" -> 250 [] t = "train" -> 1000]

Init ==
    /\ State = "Idle"
    /\ CurrentTicket = ""
    /\ CurrentPrice = 0
    /\ InsertedMoney = 0
    /\ Inventory = InitInventory
    /\ TicketPrices = InitTicketPrices
    /\ op = "none"
    /\ ticketArg = ""
    /\ amountArg = 0
    /\ ret = "nil"
    /\ lastSelected = ""
    /\ calls = 0
    /\ path = <<0, "">>
    /\ okSelect = 0
    /\ okDispense = 0
    /\ pc = [c \in Callers |-> "idle"]
    /\ local = [c \in Callers |-> <<"", 0>>]
    /\ overlap = FALSE

SetState(s) == State' = s

\* GetTicketPrice that reads the inventory table instead of the price table
GetTicketPrice_WrongTable(ticketType) == MapGet(Inventory, ticketType)

GetTicketPrice(ticketType) == MapGet(TicketPrices, ticketType)

\* HasTicket with the bound off by one: a count of 0 passes
HasTicket_NonNegative(ticketType) == MapGet(Inventory, ticketType) >= 0

HasTicket(ticketType) == MapGet(Inventory, ticketType) > 0

\* an error return of a state method: nothing of the machine is written
Fail(msg) == ret' = msg /\ UNCHANGED data

\* ---------------------------------------------------------------- IdleState
\* SelectTicket that records the selection before the availability check
IdleState_SelectTicket_WriteFirst(ticketType) ==
    IF ~HasTicket(ticketType)
    THEN /\ CurrentTicket' = ticketType
         /\ CurrentPrice' = GetTicketPrice(ticketType)
         /\ ret' = "ticket unavailable"
         /\ UNCHANGED <<State, InsertedMoney, Inventory, TicketPrices>>
    ELSE /\ CurrentTicket' = ticketType
         /\ CurrentPrice' = GetTicketPrice(ticketType)
         /\ SetState("WaitingForMoney")
         /\ ret' = "nil"
         /\ UNCHANGED <<InsertedMoney, Inventory, TicketPrices>>

\* SelectTicket that does not look up the price
IdleState_SelectTicket_NoPrice(ticketType) ==
    IF ~HasTicket(ticketType)
    THEN Fail("ticket unavailable")
    ELSE /\ CurrentTicket' = ticketType
         /\ SetState("WaitingForMoney")
         /\ ret' = "nil"
         /\ UNCHANGED <<CurrentPrice, InsertedMoney, Inventory, TicketPrices>>

\* SelectTicket with the availability test inverted
IdleState_SelectTicket_Inverted(ticketType) ==
    IF HasTicket(ticketType)
    THEN Fail("ticket unavailable")
    ELSE /\ CurrentTicket' = ticketType
         /\ CurrentPrice' = GetTicketPrice(ticketType)
         /\ SetState("WaitingForMoney")
         /\ ret' = "nil"
         /\ UNCHANGED <<InsertedMoney, Inventory, TicketPrices>>

IdleState_SelectTicket(ticketType) ==
    IF ~HasTicket(ticketType)
    THEN Fail("ticket unavailable")
    ELSE /\ CurrentTicket' = ticketType
         /\ CurrentPrice' = GetTicketPrice(ticketType)
         /\ SetState("WaitingForMoney")
         /\ ret' = "nil"
         /\ UNCHANGED <<InsertedMoney, Inventory, TicketPrices>>

IdleState_InsertMoney(amount) == Fail("please select a ticket first")

IdleState_Cancel == Fail("no active transaction")

IdleState_DispenseTicket == Fail("no paid ticket")

\* ---------------------------------------------------------------- WaitingForMoneyState
WaitingForMoneyState_SelectTicket(ticketType) == Fail("ticket already selected")

\* InsertMoney that asks for more than the price
WaitingForMoneyState_InsertMoney_Strict(amount) ==
    /\ InsertedMoney' = FAdd(InsertedMoney, amount)
    /\ IF FGe(InsertedMoney', CurrentPrice) /\ InsertedMoney' # CurrentPrice
       THEN SetState("MoneyReceived")
       ELSE UNCHANGED State
    /\ ret' = "nil"
    /\ UNCHANGED <<CurrentTicket, CurrentPrice, Inventory, TicketPrices>>

WaitingForMoneyState_InsertMoney(amount) ==
    /\ InsertedMoney' = FAdd(InsertedMoney, amount)
    /\ IF FGe(InsertedMoney', CurrentPrice)
       THEN SetState("MoneyReceived")
       ELSE UNCHANGED State
    /\ ret' = "nil"
    /\ UNCHANGED <<CurrentTicket, CurrentPrice, Inventory, TicketPrices>>

\* Cancel that puts the machine back to Idle
WaitingForMoneyState_Cancel_ToIdle ==
    /\ SetState("Idle")
    /\ ret' = "nil"
    /\ UNCHANGED <<CurrentTicket, CurrentPrice, InsertedMoney, Inventory, TicketPrices>>

WaitingForMoneyState_Cancel ==
    /\ SetState("TransactionCanceled")
    /\ ret' = "nil"
    /\ UNCHANGED <<CurrentTicket, CurrentPrice, InsertedMoney, Inventory, TicketPrices>>

WaitingForMoneyState_DispenseTicket == Fail("insufficient funds")

\* ---------------------------------------------------------------- MoneyReceivedState
MoneyReceivedState_SelectTicket(ticketType) == Fail("ticket already selected")

MoneyReceivedState_InsertMoney(amount) ==
    /\ InsertedMoney' = FAdd(InsertedMoney, amount)
    /\ ret' = "nil"
    /\ UNCHANGED <<State, CurrentTicket, CurrentPrice, Inventory, TicketPrices>>

\* Cancel that is refused once the ticket is paid
MoneyReceivedState_Cancel_Refuse == Fail("ticket already paid")

\* Cancel that gives the inserted money back
MoneyReceivedState_Cancel_Refund ==
    /\ SetState("TransactionCanceled")
    /\ InsertedMoney' = 0
    /\ ret' = "nil"
    /\ UNCHANGED <<CurrentTicket, CurrentPrice, Inventory, TicketPrices>>

MoneyReceivedState_Cancel ==
    /\ SetState("TransactionCanceled")
    /\ ret' = "nil"
    /\ UNCHANGED <<CurrentTicket, CurrentPrice, InsertedMoney, Inventory, TicketPrices>>

\* DispenseTicket that clears the selection before it decrements the inventory
MoneyReceivedState_DispenseTicket_ClearFirst ==
    /\ SetState("TicketDispensed")
    /\ CurrentTicket' = ""
    /\ Inventory' = MapDec(Inventory, CurrentTicket')
    /\ InsertedMoney' = 0
    /\ ret' = "nil"
    /\ UNCHANGED <<CurrentPrice, TicketPrices>>

\* DispenseTicket that forgets to reset the inserted money
MoneyReceivedState_DispenseTicket_NoReset ==
    /\ SetState("TicketDispensed")
    /\ Inventory' = MapDec(Inventory, CurrentTicket)
    /\ CurrentTicket' = ""
    /\ ret' = "nil"
    /\ UNCHANGED <<InsertedMoney, CurrentPrice, TicketPrices>>

MoneyReceivedState_DispenseTicket ==
    /\ SetState("TicketDispensed")
    /\ Inventory' = MapDec(Inventory, CurrentTicket)
    /\ InsertedMoney' = 0
    /\ CurrentTicket' = ""
    /\ ret' = "nil"
    /\ UNCHANGED <<CurrentPrice, TicketPrices>>

\* ---------------------------------------------------------------- TicketDispensedState
\* SelectTicket that starts a new transaction once the ticket is dispensed
TicketDispensedState_SelectTicket_Restart(ticketType) == IdleState_SelectTicket(ticketType)

TicketDispensedState_SelectTicket(ticketType) ==
    Fail("please take your ticket and start over")

TicketDispensedState_InsertMoney(amount) == Fail("please take your ticket")

TicketDispensedState_Cancel == Fail("transaction complete")

\* DispenseTicket that hands out one more ticket of the machine's first type
TicketDispensedState_DispenseTicket_Again ==
    /\ Inventory' = MapDec(Inventory, "metro")
    /\ ret' = "nil"
    /\ UNCHANGED <<State, CurrentTicket, CurrentPrice, InsertedMoney, TicketPrices>>

TicketDispensedState_DispenseTicket == Fail("ticket already dispensed")

\* ---------------------------------------------------------------- TransactionCanceledState
\* SelectTicket that starts over on a canceled machine
TransactionCanceledState_SelectTicket_Restart(ticketType) ==
    /\ InsertedMoney' = 0
    /\ CurrentTicket' = ticketType
    /\ CurrentPrice' = GetTicketPrice(ticketType)
    /\ SetState("WaitingForMoney")
    /\ ret' = "nil"
    /\ UNCHANGED <<Inventory, TicketPrices>>

TransactionCanceledState_SelectTicket(ticketType) ==
    Fail("transaction canceled. Please start over")

\* InsertMoney that refuses the money only after adding it to the total
TransactionCanceledState_InsertMoney_AddFirst(amount) ==
    /\ InsertedMoney' = FAdd(InsertedMoney, amount)
    /\ ret' = "transaction canceled"
    /\ UNCHANGED <<State, CurrentTicket, CurrentPrice, Inventory, TicketPrices>>

TransactionCanceledState_InsertMoney(amount) == Fail("transaction canceled")

\* Cancel that reports success on a machine that is already canceled
TransactionCanceledState_Cancel_Ok ==
    /\ ret' = "nil"
    /\ UNCHANGED data

TransactionCanceledState_Cancel == Fail("already canceled")

TransactionCanceledState_DispenseTicket == Fail("no ticket")

\* ---------------------------------------------------------------- calls
\* The purchase scenario of main: SelectTicket(p) for a p in stock on a new
\* machine, then InsertMoney of the listed price of p, then DispenseTicket.
\* PathStep is the position in that sequence after the call o(t) or o(a);
\* position 4 is any other sequence of calls.
PathStep(o, t, a) ==
    CASE path[1] = 0 /\ o = "SelectTicket" /\ MapGet(Inventory, t) > 0 -> <<1, t>>
      [] path[1] = 1 /\ o = "InsertMoney" /\ a = MapGet(TicketPrices, path[2]) -> <<2, path[2]>>
      [] path[1] = 2 /\ o = "DispenseTicket" -> <<3, path[2]>>
      [] OTHER -> <<4, "">>

Min(x, y) == IF x <= y THEN x ELSE y

\* a call o(t) or o(a) has returned: what the caller has seen so far
Called(o, t, a) ==
    /\ op' = o
    /\ ticketArg' = t
    /\ amountArg' = a
    /\ lastSelected' = IF o = "SelectTicket" /\ ret' = "nil" THEN t ELSE lastSelected
    /\ calls' = (calls + 1) % 2
    /\ path' = PathStep(o, t, a)
    /\ okSelect' = IF o = "SelectTicket" /\ ret' = "nil"
                   THEN Min(okSelect + 1, MaxCount) ELSE okSelect
    /\ okDispense' = IF o = "DispenseTicket" /\ ret' = "nil"
                     THEN Min(okDispense + 1, MaxCount) ELSE okDispense

\* ---------------------------------------------------------------- TicketMachine
\* Each operation of the machine calls the method of the current state object.
SelectTicket(ticketType) ==
    /\ \/ State = "Idle" /\ IdleState_SelectTicket(ticketType)
       \/ State = "WaitingForMoney" /\ WaitingForMoneyState_SelectTicket(ticketType)
       \/ State = "MoneyReceived" /\ MoneyReceivedState_SelectTicket(ticketType)
       \/ State = "TicketDispensed" /\ TicketDispensedState_SelectTicket(ticketType)
       \/ State = "TransactionCanceled" /\ TransactionCanceledState_SelectTicket(ticketType)
    /\ Called("SelectTicket", ticketType, 0)
    /\ UNCHANGED callers

InsertMoney(amount) ==
    /\ \/ State = "Idle" /\ IdleState_InsertMoney(amount)
       \/ State = "WaitingForMoney" /\ WaitingForMoneyState_InsertMoney(amount)
       \/ State = "MoneyReceived" /\ MoneyReceivedState_InsertMoney(amount)
       \/ State = "TicketDispensed" /\ TicketDispensedState_InsertMoney(amount)
       \/ State = "TransactionCanceled" /\ TransactionCanceledState_InsertMoney(amount)
    /\ Called("InsertMoney", "", amount)
    /\ UNCHANGED callers

Cancel ==
    /\ \/ State = "Idle" /\ IdleState_Cancel
       \/ State = "WaitingForMoney" /\ WaitingForMoneyState_Cancel
       \/ State = "MoneyReceived" /\ MoneyReceivedState_Cancel
       \/ State = "TicketDispensed" /\ TicketDispensedState_Cancel
       \/ State = "TransactionCanceled" /\ TransactionCanceledState_Cancel
    /\ Called("Cancel", "", 0)
    /\ UNCHANGED callers

DispenseTicket ==
    /\ \/ State = "Idle" /\ IdleState_DispenseTicket
       \/ State = "WaitingForMoney" /\ WaitingForMoneyState_DispenseTicket
       \/ State = "MoneyReceived" /\ MoneyReceivedState_DispenseTicket
       \/ State = "TicketDispensed" /\ TicketDispensedState_DispenseTicket
       \/ State = "TransactionCanceled" /\ TransactionCanceledState_DispenseTicket
    /\ Called("DispenseTicket", "", 0)
    /\ UNCHANGED callers

\* the accumulated total stays within the cap of the model
InBound(amount) ==
    LET s == FAdd(InsertedMoney, amount)
    IN  IsNaN(s) \/ (s >= -MaxMoney /\ s <= MaxMoney)

Next ==
    \/ \E t \in TicketTypes : SelectTicket(t)
    \/ \E a \in Amounts : InBound(a) /\ InsertMoney(a)
    \/ Cancel
    \/ DispenseTicket

Spec == Init /\ [][Next]_vars

\* The caller of a transaction in progress eventually calls Cancel.
SpecFair == Spec /\ WF_vars(Cancel)

\* ---------------------------------------------------------------- two callers
\* Two goroutines call the operations of one machine without synchronisation.
\* SelectTicket, InsertMoney and Cancel are taken as one step each;
\* DispenseTicket is taken statement by statement, and the decrement of the
\* map entry as a read followed by a write.

\* the machine of NewTicketMachine with one train ticket left
RaceInventory == [InitInventory EXCEPT !["train"] = 1]

RaceInit ==
    /\ State = "Idle"
    /\ CurrentTicket = ""
    /\ CurrentPrice = 0
    /\ InsertedMoney = 0
    /\ Inventory = RaceInventory
    /\ TicketPrices = InitTicketPrices
    /\ op = "none"
    /\ ticketArg = ""
    /\ amountArg = 0
    /\ ret = "nil"
    /\ lastSelected = ""
    /\ calls = 0
    /\ path = <<0, "">>
    /\ okSelect = 0
    /\ okDispense = 0
    /\ pc = [c \in Callers |-> "idle"]
    /\ local = [c \in Callers |-> <<"", 0>>]
    /\ overlap = FALSE

history == <<op, ticketArg, amountArg, ret, lastSelected, calls, path, okSelect, okDispense>>

\* m.State.DispenseTicket(m): the read of m.State that selects the method
Race_Dispatch(c) ==
    /\ pc[c] = "idle"
    /\ State = "MoneyReceived"
    /\ pc' = [pc EXCEPT ![c] = "set"]
    /\ overlap' = (overlap \/ \E d \in Callers \ {c} : pc[d] # "idle")
    /\ UNCHANGED <<data, history, local>>

\* the method of any other state only returns its error
Race_Rejected(c) ==
    /\ pc[c] = "idle"
    /\ State # "MoneyReceived"
    /\ DispenseTicket

\* m.SetState(&TicketDispensedState{})
Race_SetState(c) ==
    /\ pc[c] = "set"
    /\ SetState("TicketDispensed")
    /\ pc' = [pc EXCEPT ![c] = "read"]
    /\ UNCHANGED <<CurrentTicket, CurrentPrice, InsertedMoney, Inventory, TicketPrices,
                   history, local, overlap>>

\* m.Inventory[m.CurrentTicket]--, the read of the entry
Race_ReadInventory(c) ==
    /\ pc[c] = "read"
    /\ local' = [local EXCEPT ![c] = <<CurrentTicket, MapGet(Inventory, CurrentTicket)>>]
    /\ pc' = [pc EXCEPT ![c] = "write"]
    /\ UNCHANGED <<data, history, overlap>>

\* m.Inventory[m.CurrentTicket]--, the write of the entry
Race_WriteInventory(c) ==
    /\ pc[c] = "write"
    /\ Inventory' = [k \in DOMAIN Inventory \cup {local[c][1]} |->
                        IF k = local[c][1] THEN local[c][2] - 1 ELSE Inventory[k]]
    /\ local' = [local EXCEPT ![c] = <<"", 0>>]
    /\ pc' = [pc EXCEPT ![c] = "money"]
    /\ UNCHANGED <<State, CurrentTicket, CurrentPrice, InsertedMoney, TicketPrices,
                   history, overlap>>

\* the runtime finds two goroutines updating the map at once and ends the
\* process with "fatal error: concurrent map writes"
Race_Fatal(c) ==
    /\ pc[c] = "write"
    /\ \E d \in Callers \ {c} : pc[d] = "write"
    /\ pc' = [d \in Callers |-> "fatal"]
    /\ UNCHANGED <<data, history, local, overlap>>

\* m.InsertedMoney = 0
Race_ResetMoney(c) ==
    /\ pc[c] = "money"
    /\ InsertedMoney' = 0
    /\ pc' = [pc EXCEPT ![c] = "ticket"]
    /\ UNCHANGED <<State, CurrentTicket, CurrentPrice, Inventory, TicketPrices,
                   history, local, overlap>>

\* m.CurrentTicket = "" and return nil
Race_ClearTicket(c) ==
    /\ pc[c] = "ticket"
    /\ CurrentTicket' = ""
    /\ ret' = "nil"
    /\ Called("DispenseTicket", "", 0)
    /\ pc' = [pc EXCEPT ![c] = "idle"]
    /\ UNCHANGED <<State, CurrentPrice, InsertedMoney, Inventory, TicketPrices,
                   local, overlap>>

\* a caller that is not inside DispenseTicket makes one of the other calls
Race_Atomic(c) ==
    /\ pc[c] = "idle"
    /\ \/ \E t \in TicketTypes : SelectTicket(t)
       \/ \E a \in Amounts : InBound(a) /\ InsertMoney(a)
       \/ Cancel

RaceNext ==
    \E c \in Callers :
        \/ Race_Atomic(c)
        \/ Race_Dispatch(c)
        \/ Race_Rejected(c)
        \/ Race_SetState(c)
        \/ Race_ReadInventory(c)
        \/ Race_WriteInventory(c)
        \/ Race_Fatal(c)
        \/ Race_ResetMoney(c)
        \/ Race_ClearTicket(c)

SpecRace == RaceInit /\ [][RaceNext]_vars

TypeOK ==
    /\ State \in StateNames
    /\ CurrentTicket \in TicketTypes
    /\ op \in {"none", "SelectTicket", "InsertMoney", "Cancel", "DispenseTicket"}
    /\ ticketArg \in TicketTypes
    /\ amountArg \in Amounts
    /\ IsNaN(InsertedMoney) \/ (InsertedMoney >= -MaxMoney /\ InsertedMoney <= MaxMoney)
    /\ calls \in {0, 1}
    /\ path[1] \in 0..4 /\ path[2] \in TicketTypes
    /\ okSelect \in 0..MaxCount /\ okDispense \in 0..MaxCount
    /\ pc \in [Callers -> {"idle", "set", "read", "write", "money", "ticket", "fatal"}]
    /\ overlap \in BOOLEAN

\* ================================================================ properties

\* C1: a call that returns an error leaves InsertedMoney and Inventory, and
\* also State, CurrentTicket and CurrentPrice, exactly as they were before it.
C1_ErrorLeavesMachineUnchanged ==
    [][ret' # "nil" =>
          UNCHANGED <<InsertedMoney, Inventory, State, CurrentTicket, CurrentPrice>>]_vars

\* an error was returned in the middle of a transaction, with money inserted
C1_Witness ==
    /\ ret # "nil"
    /\ State = "WaitingForMoney"
    /\ InsertedMoney = 100

\* C2: after any sequence of calls, the inventory of every ticket type
\* (present in the map or not) is at least 0.
C2_InventoryNonNegative ==
    /\ \A k \in DOMAIN Inventory : Inventory[k] >= 0
    /\ \A t \in TicketTypes : MapGet(Inventory, t) >= 0

\* a ticket was dispensed, and a further call was made on the machine
C2_Witness ==
    /\ State = "TicketDispensed"
    /\ MapGet(Inventory, "train") = 4
    /\ ret # "nil"

\* C3: in every step the inventory of a ticket type stays or drops by exactly
\* 1; it drops only in a DispenseTicket that returns nil, and only for the
\* ticket type of the last successful SelectTicket.
C3_InventoryMonotone ==
    [][\A p \in TicketTypes \cup DOMAIN Inventory \cup DOMAIN Inventory' :
          /\ \/ MapGet(Inventory', p) = MapGet(Inventory, p)
             \/ MapGet(Inventory', p) = MapGet(Inventory, p) - 1
          /\ MapGet(Inventory', p) # MapGet(Inventory, p) =>
                /\ op' = "DispenseTicket"
                /\ ret' = "nil"
                /\ p = lastSelected]_vars

\* a dispense succeeded and took one ticket of the selected type
C3_Witness ==
    /\ op = "DispenseTicket"
    /\ ret = "nil"
    /\ lastSelected = "bus"
    /\ MapGet(Inventory, "bus") = 14

AllowedTransitions ==
    { <<"Idle", "WaitingForMoney">>,
      <<"WaitingForMoney", "MoneyReceived">>,
      <<"MoneyReceived", "TicketDispensed">>,
      <<"WaitingForMoney", "TransactionCanceled">>,
      <<"MoneyReceived", "TransactionCanceled">> }

\* C4: every change of State is one of the five transitions Idle->Waiting,
\* Waiting->Received, Received->Dispensed, Waiting->Canceled,
\* Received->Canceled; Dispensed and Canceled are never left.
C4_OnlyFiveTransitions ==
    [][/\ State' # State => <<State, State'>> \in AllowedTransitions
       /\ State \in {"TicketDispensed", "TransactionCanceled"} => State' = State]_vars

\* a call was made on a machine that had already reached a terminal state
C4_Witness ==
    /\ State \in {"TicketDispensed", "TransactionCanceled"}
    /\ op = "SelectTicket"
    /\ ticketArg = "metro"

\* C5: SelectTicket(p) in Idle for a p whose inventory is 0 (a p absent from
\* the inventory map included) returns "ticket unavailable", leaves the state
\* Idle and sets neither CurrentTicket nor CurrentPrice.
C5_UnavailableRejected ==
    [][(State = "Idle" /\ op' = "SelectTicket" /\ MapGet(Inventory, ticketArg') = 0) =>
          /\ ret' = ProductUnavailable
          /\ State' = "Idle"
          /\ CurrentTicket' = "" /\ CurrentPrice' = 0
          /\ UNCHANGED <<CurrentTicket, CurrentPrice>>]_vars

\* a ticket type that is not in the inventory map was asked for in Idle
C5_Witness ==
    /\ State = "Idle"
    /\ op = "SelectTicket"
    /\ ticketArg = "ferry"
    /\ MapGet(Inventory, "ferry") = 0
    /\ ret = ProductUnavailable

\* the states in which a selection is in progress or concluded
NotIdle == {"WaitingForMoney", "MoneyReceived", "TicketDispensed", "TransactionCanceled"}

\* C6 as stated: SelectTicket in WaitingForMoney, MoneyReceived,
\* TicketDispensed or TransactionCanceled fails with the one error
\* "ticket already selected" and leaves CurrentTicket and CurrentPrice.
C6_Original ==
    [][(State \in NotIdle /\ op' = "SelectTicket") =>
          /\ ret' = AlreadySelected
          /\ UNCHANGED <<CurrentTicket, CurrentPrice>>]_vars

\* C6: SelectTicket in any of the four states other than Idle fails and
\* leaves State, CurrentTicket and CurrentPrice; the error is "ticket already
\* selected" in WaitingForMoney and MoneyReceived, and a message of its own in
\* TicketDispensed and in TransactionCanceled.
C6_SelectOnlyFromIdle ==
    [][(State \in NotIdle /\ op' = "SelectTicket") =>
          /\ ret' # "nil"
          /\ UNCHANGED <<State, CurrentTicket, CurrentPrice>>
          /\ State \in {"WaitingForMoney", "MoneyReceived"} => ret' = AlreadySelected
          /\ State = "TicketDispensed" =>
                ret' = "please take your ticket and start over"
          /\ State = "TransactionCanceled" =>
                ret' = "transaction canceled. Please start over"]_vars

\* a selection was refused on a machine whose ticket had been dispensed
C6_Witness ==
    /\ State = "TicketDispensed"
    /\ op = "SelectTicket"
    /\ ticketArg = "bus"
    /\ ret = "please take your ticket and start over"

\* C7: whenever the state is MoneyReceived, the inserted money is at least the
\* price of the selected ticket.
C7_ReceivedCoversPrice ==
    State = "MoneyReceived" => FGe(InsertedMoney, CurrentPrice)

\* C8: InsertMoney(a) in WaitingForMoney returns nil for every a, sets
\* InsertedMoney to the old total plus a, moves to MoneyReceived when the new
\* total is at least CurrentPrice and stays in WaitingForMoney otherwise, and
\* leaves Inventory, CurrentTicket and CurrentPrice.
C8_InsertWhileWaiting ==
    [][(State = "WaitingForMoney" /\ op' = "InsertMoney") =>
          /\ ret' = "nil"
          /\ InsertedMoney' = FAdd(InsertedMoney, amountArg')
          /\ State' = IF FGe(FAdd(InsertedMoney, amountArg'), CurrentPrice)
                      THEN "MoneyReceived" ELSE "WaitingForMoney"
          /\ UNCHANGED <<Inventory, CurrentTicket, CurrentPrice, TicketPrices>>]_vars

\* the price was reached exactly by a top-up after a partial payment
C8_Witness ==
    /\ op = "InsertMoney"
    /\ ret = "nil"
    /\ State = "MoneyReceived"
    /\ CurrentTicket = "bus"
    /\ amountArg = 250
    /\ InsertedMoney = 250

\* C9: DispenseTicket in MoneyReceived returns nil and in that one step moves
\* to TicketDispensed, takes exactly 1 from the inventory of the ticket that
\* was selected before the call and from no other, sets InsertedMoney to 0
\* and clears CurrentTicket.
C9_DispenseWhenPaid ==
    [][(State = "MoneyReceived" /\ op' = "DispenseTicket") =>
          /\ ret' = "nil"
          /\ State' = "TicketDispensed"
          /\ MapGet(Inventory', CurrentTicket) = MapGet(Inventory, CurrentTicket) - 1
          /\ \A p \in (TicketTypes \cup DOMAIN Inventory') \ {CurrentTicket} :
                MapGet(Inventory', p) = MapGet(Inventory, p)
          /\ InsertedMoney' = 0
          /\ CurrentTicket' = ""]_vars

\* a paid ticket was dispensed after an over-payment
C9_Witness ==
    /\ op = "DispenseTicket"
    /\ ret = "nil"
    /\ State = "TicketDispensed"
    /\ lastSelected = "metro"
    /\ MapGet(Inventory, "metro") = 9
    /\ InsertedMoney = 0

\* C10: Cancel in WaitingForMoney or MoneyReceived returns nil and moves to
\* TransactionCanceled; a Cancel that directly follows that one returns
\* "already canceled", leaves the state TransactionCanceled and changes no
\* field of the machine.
C10_CancelTwice ==
    [][/\ (State \in {"WaitingForMoney", "MoneyReceived"} /\ op' = "Cancel") =>
             ret' = "nil" /\ State' = "TransactionCanceled"
       /\ (op = "Cancel" /\ ret = "nil" /\ op' = "Cancel") =>
             /\ State = "TransactionCanceled"
             /\ ret' = AlreadyCanceled
             /\ State' = "TransactionCanceled"
             /\ UNCHANGED data]_vars

\* the second of two Cancel calls was refused, after money had been inserted
C10_Witness ==
    /\ op = "Cancel"
    /\ ret = AlreadyCanceled
    /\ State = "TransactionCanceled"
    /\ InsertedMoney = 1000

\* C11: Cancel in WaitingForMoney or MoneyReceived returns nil, moves to
\* TransactionCanceled and leaves Inventory, InsertedMoney, CurrentTicket and
\* CurrentPrice; whenever the state is TransactionCanceled the inventory is
\* the one the machine was constructed with.
C11_CancelKeepsEverything ==
    /\ [][(State \in {"WaitingForMoney", "MoneyReceived"} /\ op' = "Cancel") =>
             /\ ret' = "nil"
             /\ State' = "TransactionCanceled"
             /\ UNCHANGED <<Inventory, InsertedMoney, CurrentTicket, CurrentPrice>>]_vars
    /\ [](State = "TransactionCanceled" => Inventory = InitInventory)

\* a fully paid train ticket was canceled: the money stays, no ticket is taken
C11_Witness ==
    /\ op = "Cancel"
    /\ ret = "nil"
    /\ State = "TransactionCanceled"
    /\ CurrentTicket = "train"
    /\ CurrentPrice = 1000
    /\ ~IsNaN(InsertedMoney) /\ InsertedMoney >= 1000
    /\ MapGet(Inventory, "train") = 5

\* C12: a call made in Idle, TicketDispensed or TransactionCanceled leaves
\* InsertedMoney, whether it returns nil or an error.
C12_MoneyOnlyChangesInTransaction ==
    [][(State \in {"Idle", "TicketDispensed", "TransactionCanceled"}) =>
          UNCHANGED InsertedMoney]_vars

\* money was offered to a canceled machine that holds an abandoned total
C12_Witness ==
    /\ State = "TransactionCanceled"
    /\ op = "InsertMoney"
    /\ amountArg = 250
    /\ ret = "transaction canceled"
    /\ InsertedMoney = 100

\* C13: on a new machine, SelectTicket(p) for a p in stock, InsertMoney of the
\* listed price of p and DispenseTicket each return nil, the states after
\* them are WaitingForMoney, MoneyReceived and TicketDispensed, and at the end
\* the inventory of p is 1 lower and every other inventory is as constructed.
C13_HappyPath ==
    /\ path[1] = 1 =>
          /\ ret = "nil" /\ State = "WaitingForMoney"
          /\ CurrentPrice = InitTicketPrices[path[2]]
    /\ path[1] = 2 => ret = "nil" /\ State = "MoneyReceived"
    /\ path[1] = 3 =>
          /\ ret = "nil" /\ State = "TicketDispensed"
          /\ Inventory = [InitInventory EXCEPT ![path[2]] = @ - 1]

\* the purchase of main was made: metro goes from 10 to 9
C13_Witness ==
    /\ path = <<3, "metro">>
    /\ op = "DispenseTicket"
    /\ Inventory = [metro |-> 9, bus |-> 15, train |-> 5]

\* C14: whenever the state is WaitingForMoney, the inserted money is less
\* than the price of the selected ticket.
C14_WaitingMeansInsufficient ==
    State = "WaitingForMoney" => FLt(InsertedMoney, CurrentPrice)

\* some call, with some argument, would return an error in the current state
SomeCallFails == ENABLED (Next /\ ret' # "nil")

\* some call, with some argument, would return nil in the current state
SomeCallSucceeds == ENABLED (Next /\ ret' = "nil")

\* C15 as stated: in every state in which some call is rejected, some call
\* with some argument returns nil.
C15_Original == SomeCallFails => SomeCallSucceeds

\* C15: some call is rejected in every state, and a call that returns nil
\* exists exactly in Idle, WaitingForMoney and MoneyReceived; in
\* TicketDispensed and TransactionCanceled every call is rejected.
C15_RecoverableUntilTerminal ==
    /\ SomeCallFails
    /\ SomeCallSucceeds <=> State \in {"Idle", "WaitingForMoney", "MoneyReceived"}

\* a call was rejected in a state from which the caller can still go on
C15_Witness ==
    /\ State = "WaitingForMoney"
    /\ op = "DispenseTicket"
    /\ ret = "insufficient funds"
    /\ InsertedMoney = 250
    /\ CurrentPrice = 300

\* C16: once a ticket is selected, the state eventually is TicketDispensed or
\* TransactionCanceled, whatever money is inserted in between, provided that
\* Cancel is called eventually.
C16_TransactionEnds ==
    (okSelect > 0) ~> (State \in {"TicketDispensed", "TransactionCanceled"})

\* a transaction ended by Cancel after amounts of both signs were inserted
C16_Witness ==
    /\ State = "TransactionCanceled"
    /\ okSelect = 1
    /\ op = "Cancel"
    /\ ret = "nil"
    /\ InsertedMoney = -300

RECURSIVE SumOver(_, _)
\* the sum of m[k] over the keys k in ks
SumOver(m, ks) ==
    IF ks = {} THEN 0
    ELSE LET k == CHOOSE x \in ks : TRUE
         IN  m[k] + SumOver(m, ks \ {k})

\* the number of tickets in the machine
Stock(m) == SumOver(m, DOMAIN m)

\* C18: at most one SelectTicket and at most one DispenseTicket ever return
\* nil, and the number of tickets in the machine is the constructed number or
\* one less.
C18_AtMostOneSale ==
    /\ okSelect <= 1
    /\ okDispense <= 1
    /\ Stock(Inventory) \in {Stock(InitInventory), Stock(InitInventory) - 1}

\* after the one sale, a second dispense and a second selection were refused
C18_Witness ==
    /\ okSelect = 1
    /\ okDispense = 1
    /\ Stock(Inventory) = Stock(InitInventory) - 1
    /\ State = "TicketDispensed"
    /\ op = "DispenseTicket"
    /\ ret = "ticket already dispensed"

\* C19: CurrentTicket is empty in Idle and TicketDispensed; in
\* WaitingForMoney, MoneyReceived and TransactionCanceled it is a ticket type
\* whose listed price is CurrentPrice and whose inventory is positive;
\* InsertedMoney is 0 in Idle and TicketDispensed; TicketPrices is as
\* constructed.
C19_SelectionConsistent ==
    /\ State \in {"Idle", "TicketDispensed"} =>
          CurrentTicket = "" /\ InsertedMoney = 0
    /\ State \in {"WaitingForMoney", "MoneyReceived", "TransactionCanceled"} =>
          /\ CurrentTicket \in DOMAIN TicketPrices
          /\ CurrentPrice = TicketPrices[CurrentTicket]
          /\ MapGet(Inventory, CurrentTicket) > 0
    /\ TicketPrices = InitTicketPrices

\* a selection that was canceled keeps its ticket type and price
C19_Witness ==
    /\ State = "TransactionCanceled"
    /\ CurrentTicket = "bus"
    /\ CurrentPrice = 250
    /\ InsertedMoney = 0
    /\ MapGet(Inventory, "bus") = 15
    /\ op = "Cancel"

\* one selection has cost the machine two tickets or more, or left a negative
\* count
DoubleDecrement ==
    \/ Stock(Inventory) <= Stock(RaceInventory) - 2
    \/ \E k \in DOMAIN Inventory : Inventory[k] < 0

\* C17: with two callers on one machine, the inventory is decremented twice
\* for a single selection only when both callers were inside
\* MoneyReceivedState.DispenseTicket at once, the second having read m.State
\* before the first one's SetState; calls that do not overlap never do it.
C17_DoubleDecrementOnlyWhenInterleaved ==
    /\ okSelect <= 1
    /\ DoubleDecrement => overlap

\* the last train ticket was dispensed twice for one selection: count -1
C17_Witness ==
    /\ okSelect = 1
    /\ lastSelected = "train"
    /\ overlap
    /\ MapGet(Inventory, "train") = -1
    /\ okDispense = 2
====
